---- MODULE Spec2Model ----
(***************************************************************************)
(* Model of scripts/generate_timeblocking.mjs: the generator that turns    *)
(* the gigs document into morning work blocks and writes them as an ICS    *)
(* calendar.                                                               *)
(*                                                                         *)
(* Representation:                                                         *)
(*   - a text such as "10:00 AM - 02:00 PM" is a sequence of one-character *)
(*     strings, parsed as the code parses it (split, trim, regex);         *)
(*   - a YYYY-MM-DD date is the triple <<y, m, d>>; Date.UTC arithmetic is *)
(*     the proleptic Gregorian day count;                                  *)
(*   - an "HH:MM" text is the pair <<h, m>>;                               *)
(*   - a missing or empty field is the empty sequence (both are falsy);    *)
(*   - a thrown Error is the record [ok |-> FALSE].                        *)
(***************************************************************************)
EXTENDS Integers, Sequences, FiniteSets, TLC

VARIABLES
    data,        \* the fetched document [server_date, gigs]
    pc,          \* position of main: "start", "loop", "done", "error"
    byDate,      \* Map date -> gigs of that date
    i,           \* day loop counter
    allEvents,   \* events collected so far
    written,     \* contents written to docs/timeblocking.ics, one per run
    run,         \* number of the current run over the same document
    now,         \* wall clock (ms) read by the last buildIcs
    mIn, mOut,   \* mergeIntervals: argument, result
    sAvail, sBusy, sOut,        \* subtractIntervals: arguments, result
    fFree, fRemaining, fEvents, fK  \* scheduleBlocks: argument, loop state

mainVars  == <<data, pc, byDate, i, allEvents, written, run, now>>
mergeVars == <<mIn, mOut>>
subVars   == <<sAvail, sBusy, sOut>>
schedVars == <<fFree, fRemaining, fEvents, fK>>
vars      == <<mainVars, mergeVars, subVars, schedVars>>

-----------------------------------------------------------------------------
(* Bounds of the model *)

MaxGigs    == 2   \* gigs in the fetched document
MaxGigsPub == 1   \* gigs in the document of a republished calendar
MaxTick    == 2   \* wall-clock instants, half a second apart
MaxRuns    == 2   \* runs over the same document
MaxT       == 3   \* mergeIntervals: endpoints are 0..MaxT
MaxIvs     == 3   \* mergeIntervals: intervals in the argument
MaxPt      == 6   \* subtractIntervals: endpoints are 0..MaxPt
MaxFree    == 2   \* scheduleBlocks: free intervals in the argument

-----------------------------------------------------------------------------
(* Configuration *)

DJ    == "javi"
TZID  == "Asia/Dubai"
DAYS  == 7
BREAKFAST_END == <<8, 30>>
DEFAULT_END   == <<13, 0>>
BREAK_MIN == 15

BLOCKS == <<
    [key |-> "music",   title |-> "Musica (escuchar/descargar)", minutes |-> 30],
    [key |-> "nibango", title |-> "Nibango (deep work)",         minutes |-> 90],
    [key |-> "youtube", title |-> "YouTube (video viernes)",     minutes |-> 60] >>

-----------------------------------------------------------------------------
(* Small helpers *)

Max(a, b) == IF a >= b THEN a ELSE b
Min(a, b) == IF a <= b THEN a ELSE b

clamp(n, a, b) == Max(a, Min(b, n))

hmToMinutes(hm) == hm[1] * 60 + hm[2]

minutesToHm(min) == <<min \div 60, min % 60>>

(* Date.UTC(y, m - 1, d) in days since 1970-01-01 *)
DateUTC(ymd) ==
    LET y   == IF ymd[2] <= 2 THEN ymd[1] - 1 ELSE ymd[1]
        era == y \div 400
        yoe == y - era * 400
        mp  == IF ymd[2] > 2 THEN ymd[2] - 3 ELSE ymd[2] + 9
        doy == (153 * mp + 2) \div 5 + ymd[3] - 1
        doe == yoe * 365 + yoe \div 4 - yoe \div 100 + doy
    IN  era * 146097 + doe - 719468

(* getUTCFullYear / getUTCMonth + 1 / getUTCDate of a day count *)
YmdOfUTC(n) ==
    LET z   == n + 719468
        era == z \div 146097
        doe == z - era * 146097
        yoe == (doe - doe \div 1460 + doe \div 36524 - doe \div 146096) \div 365
        doy == doe - (365 * yoe + yoe \div 4 - yoe \div 100)
        mp  == (5 * doy + 2) \div 153
        d   == doy - (153 * mp + 2) \div 5 + 1
        m   == IF mp < 10 THEN mp + 3 ELSE mp - 9
        y   == yoe + era * 400
    IN  <<IF m <= 2 THEN y + 1 ELSE y, m, d>>

addDaysYmd(ymd, add) == YmdOfUTC(DateUTC(ymd) + add)

weekdayIndexUTC(ymd) == (DateUTC(ymd) + 4) % 7   \* 0 Sun ... 6 Sat

-----------------------------------------------------------------------------
(* Text parsing *)

Digits == <<"0", "1", "2", "3", "4", "5", "6", "7", "8", "9">>

IsDigit(c) == \E k \in 1..10 : Digits[k] = c

DigitVal(c) == (CHOOSE k \in 1..10 : Digits[k] = c) - 1

IsSpace(c) == c = " "

RECURSIVE trim(_)
trim(s) ==
    IF s = <<>> THEN s
    ELSE IF IsSpace(s[1]) THEN trim(Tail(s))
    ELSE IF IsSpace(s[Len(s)]) THEN trim(SubSeq(s, 1, Len(s) - 1))
    ELSE s

(* s.split("-"): the pieces between the dashes, at least one piece *)
RECURSIVE splitDash(_, _, _)
splitDash(s, k, cur) ==
    IF k > Len(s) THEN <<cur>>
    ELSE IF s[k] = "-" THEN <<cur>> \o splitDash(s, k + 1, <<>>)
    ELSE splitDash(s, k + 1, Append(cur, s[k]))

(* /^(\d{1,2}):(\d{2})\s*(AM|PM)$/i on the trimmed text *)
matchTime(t) ==
    LET n    == Len(t)
        hLen == IF n >= 2 /\ t[2] = ":" THEN 1 ELSE 2
        ok   == /\ n >= hLen + 5
                /\ \A k \in 1..hLen : IsDigit(t[k])
                /\ t[hLen + 1] = ":"
                /\ IsDigit(t[hLen + 2]) /\ IsDigit(t[hLen + 3])
                /\ \A k \in (hLen + 4)..(n - 2) : IsSpace(t[k])
                /\ t[n - 1] \in {"A", "a", "P", "p"}
                /\ t[n] \in {"M", "m"}
    IN  IF ~ok THEN [ok |-> FALSE]
        ELSE [ok |-> TRUE,
              h  |-> IF hLen = 1 THEN DigitVal(t[1])
                     ELSE DigitVal(t[1]) * 10 + DigitVal(t[2]),
              m  |-> DigitVal(t[hLen + 2]) * 10 + DigitVal(t[hLen + 3]),
              ap |-> IF t[n - 1] \in {"A", "a"} THEN "AM" ELSE "PM"]

parseTime12h(s) ==
    LET m == matchTime(trim(s))
    IN  IF ~m.ok THEN [ok |-> FALSE]
        ELSE [ok |-> TRUE,
              hh |-> IF m.ap = "AM"
                     THEN (IF m.h = 12 THEN 0 ELSE m.h)
                     ELSE (IF m.h # 12 THEN m.h + 12 ELSE m.h),
              mm |-> m.m]

parseRange(range) ==
    LET raw   == splitDash(range, 1, <<>>)
        parts == [k \in 1..Len(raw) |-> trim(raw[k])]
    IN  IF Len(parts) # 2 THEN [ok |-> FALSE]
        ELSE LET a == parseTime12h(parts[1])
                 b == parseTime12h(parts[2])
             IN  IF ~a.ok \/ ~b.ok THEN [ok |-> FALSE]
                 ELSE [ok |-> TRUE, start |-> a, end |-> b]

-----------------------------------------------------------------------------
(* Interval primitives.  An interval is [startMin |-> a, endMin |-> b]. *)

Iv(a, b) == [startMin |-> a, endMin |-> b]

(* Array.prototype.filter *)
RECURSIVE keepNonEmpty(_)
keepNonEmpty(s) ==
    IF s = <<>> THEN <<>>
    ELSE IF s[1].endMin > s[1].startMin THEN <<s[1]>> \o keepNonEmpty(Tail(s))
    ELSE keepNonEmpty(Tail(s))

(* one insertion of the stable sort by startMin: x goes after every element
   whose startMin is not greater *)
RECURSIVE insertByStart(_, _)
insertByStart(sorted, x) ==
    IF sorted = <<>> THEN <<x>>
    ELSE IF sorted[1].startMin - x.startMin <= 0
         THEN <<sorted[1]>> \o insertByStart(Tail(sorted), x)
         ELSE <<x>> \o sorted

RECURSIVE sortByStart(_)
sortByStart(s) ==
    IF s = <<>> THEN <<>>
    ELSE insertByStart(sortByStart(SubSeq(s, 1, Len(s) - 1)), s[Len(s)])

(* variant: an interval that touches the last one starts a new interval *)
mergeStepTouching(merged, iv) ==
    IF merged = <<>> \/ iv.startMin >= merged[Len(merged)].endMin
    THEN Append(merged, iv)
    ELSE [merged EXCEPT ![Len(merged)].endMin = Max(merged[Len(merged)].endMin, iv.endMin)]

(* body of the loop of mergeIntervals *)
mergeStep(merged, iv) ==
    IF merged = <<>> \/ iv.startMin > merged[Len(merged)].endMin
    THEN Append(merged, iv)
    ELSE [merged EXCEPT ![Len(merged)].endMin = Max(merged[Len(merged)].endMin, iv.endMin)]

RECURSIVE mergeLoop(_, _)
mergeLoop(merged, rest) ==
    IF rest = <<>> THEN merged
    ELSE mergeLoop(mergeStep(merged, rest[1]), Tail(rest))

mergeIntervals(intervals) == mergeLoop(<<>>, sortByStart(keepNonEmpty(intervals)))

(* variant: a busy interval starting at the cursor also emits a range *)
subtractStepInclusive(a, b, st) ==
    IF b.endMin <= st.cursor THEN st
    ELSE IF b.startMin >= a.endMin THEN [st EXCEPT !.brk = TRUE]
    ELSE LET out2 == IF b.startMin >= st.cursor
                     THEN Append(st.out, Iv(st.cursor, Min(b.startMin, a.endMin)))
                     ELSE st.out
             cur2 == Max(st.cursor, b.endMin)
         IN  [cursor |-> cur2, out |-> out2, brk |-> cur2 >= a.endMin]

(* body of the inner loop of subtractIntervals; brk records a break *)
subtractStep(a, b, st) ==
    IF b.endMin <= st.cursor THEN st
    ELSE IF b.startMin >= a.endMin THEN [st EXCEPT !.brk = TRUE]
    ELSE LET out2 == IF b.startMin > st.cursor
                     THEN Append(st.out, Iv(st.cursor, Min(b.startMin, a.endMin)))
                     ELSE st.out
             cur2 == Max(st.cursor, b.endMin)
         IN  [cursor |-> cur2, out |-> out2, brk |-> cur2 >= a.endMin]

RECURSIVE subtractInner(_, _, _, _)
subtractInner(a, busy, k, st) ==
    IF k > Len(busy) \/ st.brk THEN st
    ELSE subtractInner(a, busy, k + 1, subtractStep(a, busy[k], st))

(* body of the outer loop of subtractIntervals *)
subtractOne(a, busy, out) ==
    LET st == subtractInner(a, busy, 1, [cursor |-> a.startMin, out |-> out, brk |-> FALSE])
    IN  IF st.cursor < a.endMin THEN Append(st.out, Iv(st.cursor, a.endMin))
        ELSE st.out

RECURSIVE subtractOuter(_, _, _, _)
subtractOuter(available, busy, k, out) ==
    IF k > Len(available) THEN out
    ELSE subtractOuter(available, busy, k + 1, subtractOne(available[k], busy, out))

subtractIntervals(available, busy) == subtractOuter(available, busy, 1, <<>>)

-----------------------------------------------------------------------------
(* Events *)

dtLocalFloating(ymd, hm) == <<ymd[1], ymd[2], ymd[3], "T", hm[1], hm[2], 0>>

uidForEvent(key, ymd, startHm) == <<"tb", DJ, key, ymd, startHm[1], startHm[2], "@javibeat">>

(* new Date().toISOString() without the milliseconds *)
dtstampOf(ms) == ms \div 1000

(* variant: the UID is made unique with the generation timestamp *)
eventBlockStampedUid(ev, dtstamp) ==
    << <<"BEGIN:VEVENT">>,
       <<"UID", ev.uid, dtstamp>>,
       <<"DTSTAMP", dtstamp>>,
       <<"SUMMARY", ev.summary>>,
       <<"DTSTART;TZID", TZID, ev.dtstart>>,
       <<"DTEND;TZID", TZID, ev.dtend>>,
       <<"STATUS:CONFIRMED">>,
       <<"TRANSP:OPAQUE">>,
       <<"END:VEVENT">> >>

(* the lines of one event *)
eventBlock(ev, dtstamp) ==
    << <<"BEGIN:VEVENT">>,
       <<"UID", ev.uid>>,
       <<"DTSTAMP", dtstamp>>,
       <<"SUMMARY", ev.summary>>,
       <<"DTSTART;TZID", TZID, ev.dtstart>>,
       <<"DTEND;TZID", TZID, ev.dtend>>,
       <<"STATUS:CONFIRMED">>,
       <<"TRANSP:OPAQUE">>,
       <<"END:VEVENT">> >>

RECURSIVE eventLines(_, _)
eventLines(events, dtstamp) ==
    IF events = <<>> THEN <<>>
    ELSE eventBlock(events[1], dtstamp) \o eventLines(Tail(events), dtstamp)

buildIcs(events, clock) ==
    << <<"BEGIN:VCALENDAR">>,
       <<"VERSION:2.0">>,
       <<"PRODID:-//JaviBeat//Timeblocking//EN">>,
       <<"CALSCALE:GREGORIAN">>,
       <<"METHOD:PUBLISH">>,
       <<"X-WR-CALNAME:Timeblocking">>,
       <<"X-WR-TIMEZONE", TZID>> >>
    \o eventLines(events, dtstampOf(clock))
    \o << <<"END:VCALENDAR">> >>

-----------------------------------------------------------------------------
(* Morning window and block packing *)

(* the scan of chooseMorningEnd: found is FALSE while earliest is null *)
RECURSIVE firstRelevant(_, _)
firstRelevant(busyMerged, k) ==
    IF k > Len(busyMerged) THEN [found |-> FALSE, startMin |-> 0]
    ELSE IF busyMerged[k].endMin <= hmToMinutes(BREAKFAST_END)
         THEN firstRelevant(busyMerged, k + 1)
         ELSE [found |-> TRUE, startMin |-> busyMerged[k].startMin]

(* variant: the scan skips the intervals that start at or before 08:30 *)
RECURSIVE firstStartingAfter(_, _)
firstStartingAfter(busyMerged, k) ==
    IF k > Len(busyMerged) THEN [found |-> FALSE, startMin |-> 0]
    ELSE IF busyMerged[k].startMin <= hmToMinutes(BREAKFAST_END)
         THEN firstStartingAfter(busyMerged, k + 1)
         ELSE [found |-> TRUE, startMin |-> busyMerged[k].startMin]

chooseMorningEndByStart(busyMerged, defaultEndMin) ==
    LET earliest == firstStartingAfter(busyMerged, 1)
    IN  IF ~earliest.found THEN defaultEndMin
        ELSE clamp(earliest.startMin, 0, defaultEndMin)

chooseMorningEnd(busyMerged, defaultEndMin) ==
    LET earliest == firstRelevant(busyMerged, 1)
    IN  IF ~earliest.found THEN defaultEndMin
        ELSE clamp(earliest.startMin, 0, defaultEndMin)

(* the inner loop of scheduleBlocks: index of the first interval big enough,
   0 when the loop ends without placing *)
RECURSIVE firstFit(_, _, _)
firstFit(remainingFree, needed, idx) ==
    IF idx > Len(remainingFree) THEN 0
    ELSE IF remainingFree[idx].endMin - remainingFree[idx].startMin < needed
         THEN firstFit(remainingFree, needed, idx + 1)
         ELSE idx

(* variant: an interval of exactly the needed length is passed over *)
RECURSIVE firstFitStrict(_, _, _)
firstFitStrict(remainingFree, needed, idx) ==
    IF idx > Len(remainingFree) THEN 0
    ELSE IF remainingFree[idx].endMin - remainingFree[idx].startMin <= needed
         THEN firstFitStrict(remainingFree, needed, idx + 1)
         ELSE idx

placeBlockStrictFit(st, blk, ymd) ==
    LET idx == firstFitStrict(st.remainingFree, blk.minutes, 1)
    IN  IF idx = 0 THEN st
        ELSE LET it       == st.remainingFree[idx]
                 endMin   == it.startMin + blk.minutes
                 startHm  == minutesToHm(it.startMin)
                 endHm    == minutesToHm(endMin)
                 newStart == endMin + BREAK_MIN
             IN  [events |-> Append(st.events,
                                    [uid     |-> uidForEvent(blk.key, ymd, startHm),
                                     summary |-> blk.title,
                                     dtstart |-> dtLocalFloating(ymd, startHm),
                                     dtend   |-> dtLocalFloating(ymd, endHm)]),
                  remainingFree |-> SubSeq(st.remainingFree, 1, idx - 1)
                                    \o (IF newStart < it.endMin THEN <<Iv(newStart, it.endMin)>> ELSE <<>>)
                                    \o SubSeq(st.remainingFree, idx + 1, Len(st.remainingFree))]

(* variant: the consumed interval resumes right at the end of the block *)
placeBlockNoBreak(st, blk, ymd) ==
    LET idx == firstFit(st.remainingFree, blk.minutes, 1)
    IN  IF idx = 0 THEN st
        ELSE LET it       == st.remainingFree[idx]
                 endMin   == it.startMin + blk.minutes
                 startHm  == minutesToHm(it.startMin)
                 endHm    == minutesToHm(endMin)
             IN  [events |-> Append(st.events,
                                    [uid     |-> uidForEvent(blk.key, ymd, startHm),
                                     summary |-> blk.title,
                                     dtstart |-> dtLocalFloating(ymd, startHm),
                                     dtend   |-> dtLocalFloating(ymd, endHm)]),
                  remainingFree |-> SubSeq(st.remainingFree, 1, idx - 1)
                                    \o (IF endMin < it.endMin THEN <<Iv(endMin, it.endMin)>> ELSE <<>>)
                                    \o SubSeq(st.remainingFree, idx + 1, Len(st.remainingFree))]

(* body of the outer loop of scheduleBlocks, for one template *)
placeBlock(st, blk, ymd) ==
    LET idx == firstFit(st.remainingFree, blk.minutes, 1)
    IN  IF idx = 0 THEN st
        ELSE LET it       == st.remainingFree[idx]
                 startMin == it.startMin
                 endMin   == startMin + blk.minutes
                 startHm  == minutesToHm(startMin)
                 endHm    == minutesToHm(endMin)
                 newStart == endMin + BREAK_MIN
                 newIntervals == IF newStart < it.endMin
                                 THEN <<Iv(newStart, it.endMin)>> ELSE <<>>
             IN  [events |-> Append(st.events,
                                    [uid     |-> uidForEvent(blk.key, ymd, startHm),
                                     summary |-> blk.title,
                                     dtstart |-> dtLocalFloating(ymd, startHm),
                                     dtend   |-> dtLocalFloating(ymd, endHm)]),
                  remainingFree |-> SubSeq(st.remainingFree, 1, idx - 1)
                                    \o newIntervals
                                    \o SubSeq(st.remainingFree, idx + 1, Len(st.remainingFree))]

RECURSIVE scheduleLoop(_, _, _)
scheduleLoop(st, k, ymd) ==
    IF k > Len(BLOCKS) THEN st
    ELSE scheduleLoop(placeBlock(st, BLOCKS[k], ymd), k + 1, ymd)

scheduleBlocks(freeIntervals, ymd) ==
    scheduleLoop([events |-> <<>>, remainingFree |-> freeIntervals], 1, ymd).events

-----------------------------------------------------------------------------
(* The fetched document *)

T12(h1, h2, m1, m2, a) == <<h1, h2, ":", m1, m2, " ", a, "M">>

Rng(x, y) == x \o <<" ", "-", " ">> \o y

GigTimes ==
    { Rng(T12("1","0","0","0","A"), T12("0","2","0","0","P")),   \* 10:00 AM - 02:00 PM
      Rng(T12("0","8","0","0","A"), T12("0","9","0","0","A")),   \* 08:00 AM - 09:00 AM
      Rng(T12("1","1","3","0","A"), T12("1","2","3","0","P")),   \* 11:30 AM - 12:30 PM
      Rng(T12("0","2","4","5","P"), T12("0","6","4","5","P")),   \* 02:45 PM - 06:45 PM
      Rng(T12("0","4","0","0","A"), T12("0","5","0","0","A")),   \* 04:00 AM - 05:00 AM
      Rng(T12("0","9","7","5","A"), T12("1","1","0","0","A")),   \* 09:75 AM - 11:00 AM
      <<"T", "B", "D">>,                                          \* TBD
      <<>> }                                                      \* no time

AnchorDays == { <<2026, 2, d>> : d \in 22..28 }   \* Sunday 22 .. Saturday 28

NextDayTimes ==
    { Rng(T12("1","1","3","0","A"), T12("1","2","3","0","P")),   \* 11:30 AM - 12:30 PM
      <<"T", "B", "D">> }                                         \* TBD

(* gigs on the anchor day and on the day after *)
GigsFor(today) ==
    { [date |-> today, time |-> t] : t \in GigTimes }
    \cup { [date |-> addDaysYmd(today, 1), time |-> t] : t \in NextDayTimes }

SeqsUpTo(S, n) == UNION { [1..k -> S] : k \in 0..n }

ClockInstants == { 500 * k : k \in 0..MaxTick }

-----------------------------------------------------------------------------
(* main *)

(* the Map built from the gigs that have both a date and a time *)
groupByDate(gigs) ==
    LET usable(g) == ~(g.date = <<>> \/ g.time = <<>>)
        dates == { gigs[k].date : k \in { j \in 1..Len(gigs) : usable(gigs[j]) } }
    IN  [d \in dates |-> SelectSeq(gigs, LAMBDA g : usable(g) /\ g.date = d)]

mapGet(map, ymd) == IF ymd \in DOMAIN map THEN map[ymd] ELSE <<>>

(* variant: Sunday passes the filter *)
isWeekdayFromSunday(dow) == dow >= 0 /\ dow <= 5

isWeekday(dow) == dow >= 1 /\ dow <= 5

(* variant: no lead buffer before the gig *)
busyOfGigNoLead(g) ==
    LET r == parseRange(g.time)
    IN  IF ~r.ok THEN [ok |-> FALSE]
        ELSE LET startMin == r.start.hh * 60 + r.start.mm
                 endMin   == r.end.hh * 60 + r.end.mm
             IN  [ok |-> TRUE,
                  iv |-> Iv(clamp(startMin, 0, 1440), clamp(endMin + 60, 0, 1440))]

(* body of the loop over gigsForDay: the busy interval of one gig *)
busyOfGig(g) ==
    LET r == parseRange(g.time)
    IN  IF ~r.ok THEN [ok |-> FALSE]
        ELSE LET startMin == r.start.hh * 60 + r.start.mm
                 endMin   == r.end.hh * 60 + r.end.mm
             IN  [ok |-> TRUE,
                  iv |-> Iv(clamp(startMin - 60, 0, 1440), clamp(endMin + 60, 0, 1440))]

RECURSIVE busyLoop(_, _)
busyLoop(gigsForDay, busy) ==
    IF gigsForDay = <<>> THEN [ok |-> TRUE, busy |-> busy]
    ELSE LET b == busyOfGig(gigsForDay[1])
         IN  IF ~b.ok THEN [ok |-> FALSE]
             ELSE busyLoop(Tail(gigsForDay), Append(busy, b.iv))

(* the part of the day loop after busyMerged is known *)
dayEventsOf(busyMerged, ymd) ==
    LET morningStartMin == hmToMinutes(BREAKFAST_END)
        defaultEndMin   == hmToMinutes(DEFAULT_END)
        morningEndMin   == chooseMorningEnd(busyMerged, defaultEndMin)
    IN  IF morningEndMin <= morningStartMin THEN <<>>
        ELSE LET available == <<Iv(morningStartMin, morningEndMin)>>
                 free      == keepNonEmpty(subtractIntervals(available, busyMerged))
             IN  scheduleBlocks(free, ymd)

Group ==
    /\ pc = "start"
    /\ byDate' = groupByDate(data.gigs)
    /\ allEvents' = <<>>
    /\ i' = 0
    /\ pc' = "loop"
    /\ UNCHANGED <<data, written, run, now>>

ProcessDay ==
    /\ pc = "loop"
    /\ i < DAYS
    /\ LET ymd == addDaysYmd(data.server_date, i)
           dow == weekdayIndexUTC(ymd)
       IN  IF ~isWeekday(dow)
           THEN /\ i' = i + 1
                /\ UNCHANGED <<pc, allEvents>>
           ELSE LET b == busyLoop(mapGet(byDate, ymd), <<>>)
                IN  IF ~b.ok
                    THEN /\ pc' = "error"
                         /\ UNCHANGED <<i, allEvents>>
                    ELSE /\ allEvents' = allEvents \o dayEventsOf(mergeIntervals(b.busy), ymd)
                         /\ i' = i + 1
                         /\ UNCHANGED pc
    /\ UNCHANGED <<data, byDate, written, run, now>>

Finish ==
    /\ pc = "loop"
    /\ ~(i < DAYS)
    /\ \E t \in ClockInstants :
          /\ t >= now
          /\ now' = t
          /\ written' = Append(written, buildIcs(allEvents, t))
    /\ pc' = "done"
    /\ UNCHANGED <<data, byDate, i, allEvents, run>>

(* the next scheduled run of the script, the API still returning the same document *)
Rerun ==
    /\ pc = "done"
    /\ run < MaxRuns
    /\ run' = run + 1
    /\ pc' = "start"
    /\ byDate' = <<>>
    /\ allEvents' = <<>>
    /\ i' = 0
    /\ UNCHANGED <<data, written, now>>

IdleMerge == mIn = <<>> /\ mOut = <<>>
IdleSub   == sAvail = <<>> /\ sBusy = <<>> /\ sOut = <<>>
IdleSched == fFree = <<>> /\ fRemaining = <<>> /\ fEvents = <<>> /\ fK = 0
IdleMain  ==
    /\ data = [server_date |-> <<2026, 2, 24>>, gigs |-> <<>>]
    /\ byDate = <<>> /\ i = 0 /\ allEvents = <<>>
    /\ written = <<>> /\ run = 1 /\ now = 0

mainIdle == <<data, byDate, i, allEvents, written, run, now>>

InitMain(maxGigs) ==
    /\ \E a \in AnchorDays : \E gs \in SeqsUpTo(GigsFor(a), maxGigs) :
          data = [server_date |-> a, gigs |-> gs]
    /\ pc = "start"
    /\ byDate = <<>>
    /\ i = 0
    /\ allEvents = <<>>
    /\ written = <<>>
    /\ run = 1
    /\ now = 0
    /\ IdleMerge /\ IdleSub /\ IdleSched

(* one run of the script *)
Init == InitMain(MaxGigs)

Next ==
    \/ Group /\ UNCHANGED <<mergeVars, subVars, schedVars>>
    \/ ProcessDay /\ UNCHANGED <<mergeVars, subVars, schedVars>>
    \/ Finish /\ UNCHANGED <<mergeVars, subVars, schedVars>>

Spec == Init /\ [][Next]_vars

(* the script run again and again on the same document *)
InitPub == InitMain(MaxGigsPub)

NextPub ==
    \/ Next
    \/ Rerun /\ UNCHANGED <<mergeVars, subVars, schedVars>>

SpecPub == InitPub /\ [][NextPub]_vars

-----------------------------------------------------------------------------
(* mergeIntervals on its own *)

MergeArgs == SeqsUpTo({ Iv(a, b) : a, b \in 0..MaxT }, MaxIvs)

InitMerge ==
    /\ pc = "merge"
    /\ mIn \in MergeArgs
    /\ mOut = <<>>
    /\ IdleMain /\ IdleSub /\ IdleSched

CallMerge ==
    /\ pc = "merge"
    /\ mOut' = mergeIntervals(mIn)
    /\ pc' = "merged"
    /\ UNCHANGED <<mIn, mainIdle, subVars, schedVars>>

NextMerge == CallMerge

SpecMerge == InitMerge /\ [][NextMerge]_vars

-----------------------------------------------------------------------------
(* subtractIntervals on its own *)

RECURSIVE ascending(_)
ascending(S) ==
    IF S = {} THEN <<>>
    ELSE LET lo == CHOOSE x \in S : \A y \in S : x <= y
         IN  <<lo>> \o ascending(S \ {lo})

(* the merged lists: sorted, non-empty intervals, each starting after the
   previous one ends *)
MergedLists(P) ==
    { [k \in 1..(Cardinality(S) \div 2) |-> Iv(ascending(S)[2 * k - 1], ascending(S)[2 * k])] :
         S \in { X \in SUBSET P : Cardinality(X) % 2 = 0 } }

InitSubtract ==
    /\ pc = "subtract"
    /\ sAvail \in MergedLists(0..MaxPt)
    /\ sBusy \in MergedLists(0..MaxPt)
    /\ sOut = <<>>
    /\ IdleMain /\ IdleMerge /\ IdleSched

CallSubtract ==
    /\ pc = "subtract"
    /\ sOut' = subtractIntervals(sAvail, sBusy)
    /\ pc' = "subtracted"
    /\ UNCHANGED <<sAvail, sBusy, mainIdle, mergeVars, schedVars>>

NextSubtract == CallSubtract

SpecSubtract == InitSubtract /\ [][NextSubtract]_vars

-----------------------------------------------------------------------------
(* scheduleBlocks on its own, one template per step *)

FreeGaps == {0, 20}

FreeLengths == {15, 30, 45, 59, 60, 90, 105, 135, 270}

(* sorted disjoint free intervals from 08:30 on, given as (gap, length) pairs *)
RECURSIVE layOut(_, _)
layOut(shape, from) ==
    IF shape = <<>> THEN <<>>
    ELSE <<Iv(from + shape[1][1], from + shape[1][1] + shape[1][2])>>
         \o layOut(Tail(shape), from + shape[1][1] + shape[1][2])

FreeArgs == { layOut(sh, hmToMinutes(BREAKFAST_END)) : sh \in SeqsUpTo(FreeGaps \X FreeLengths, MaxFree) }

ScheduleDay == <<2026, 2, 24>>

InitSchedule ==
    /\ pc = "schedule"
    /\ fFree \in FreeArgs
    /\ fRemaining = fFree
    /\ fEvents = <<>>
    /\ fK = 1
    /\ IdleMain /\ IdleMerge /\ IdleSub

ScheduleStep ==
    /\ pc = "schedule"
    /\ fK <= Len(BLOCKS)
    /\ LET st == placeBlock([events |-> fEvents, remainingFree |-> fRemaining], BLOCKS[fK], ScheduleDay)
       IN  /\ fEvents' = st.events
           /\ fRemaining' = st.remainingFree
    /\ fK' = fK + 1
    /\ UNCHANGED <<pc, fFree, mainIdle, mergeVars, subVars>>

ScheduleReturn ==
    /\ pc = "schedule"
    /\ fK > Len(BLOCKS)
    /\ pc' = "scheduled"
    /\ UNCHANGED <<fFree, fRemaining, fEvents, fK, mainIdle, mergeVars, subVars>>

NextSchedule == ScheduleStep \/ ScheduleReturn

SpecSchedule == InitSchedule /\ [][NextSchedule]_vars

-----------------------------------------------------------------------------
(* Properties of a run *)

EvDay(e)   == <<e.dtstart[1], e.dtstart[2], e.dtstart[3]>>
EvStart(e) == e.dtstart[5] * 60 + e.dtstart[6]
EvEnd(e)   == e.dtend[5] * 60 + e.dtend[6]
EvKey(e)   == e.uid[3]

EventsOn(ymd) == SelectSeq(allEvents, LAMBDA e : EvDay(e) = ymd)

KeysOn(ymd) == { EvKey(allEvents[k]) : k \in { j \in 1..Len(allEvents) : EvDay(allEvents[j]) = ymd } }

Priority(key) == CHOOSE k \in 1..Len(BLOCKS) : BLOCKS[k].key = key

InDay(x) == IF x < 0 THEN 0 ELSE IF x > 1440 THEN 1440 ELSE x

DayAt(k) == addDaysYmd(data.server_date, k)

Processed(k) == k < i

(* the buffered interval of a gig, <<0, 0>> when the gig has none *)
BufferedGig(g) ==
    IF g.date = <<>> \/ g.time = <<>> THEN <<0, 0>>
    ELSE LET r == parseRange(g.time)
         IN  IF ~r.ok THEN <<0, 0>>
             ELSE <<InDay(r.start.hh * 60 + r.start.mm - 60),
                    InDay(r.end.hh * 60 + r.end.mm + 60)>>

(* the busy list main derives for day k, when every gig of it parses *)
BusyOfDay(k) ==
    busyLoop(SelectSeq(data.gigs, LAMBDA g : g.date = DayAt(k) /\ g.time # <<>>), <<>>)

(* C1: no two blocks of a day overlap, and no block shares a minute with a
   buffered gig interval [start - 60, end + 60] (clamped to the day) of its day *)
C1_NoDoubleBooking ==
    LET bz == [k \in 1..Len(data.gigs) |-> BufferedGig(data.gigs[k])] IN
    \A a \in 1..Len(allEvents) :
       LET e == allEvents[a] IN
       /\ \A b \in 1..Len(allEvents) :
             (a # b /\ EvDay(allEvents[b]) = EvDay(e))
                => (EvEnd(e) <= EvStart(allEvents[b]) \/ EvEnd(allEvents[b]) <= EvStart(e))
       /\ \A k \in 1..Len(data.gigs) :
             (data.gigs[k].date = EvDay(e) /\ bz[k][1] < bz[k][2])
                => (EvEnd(e) <= bz[k][1] \/ bz[k][2] <= EvStart(e))

(* a finished run with a block on a day whose gig buffer starts in the morning *)
C1_Witness ==
    /\ pc = "done"
    /\ \E a \in 1..Len(allEvents) : \E k \in 1..Len(data.gigs) :
          /\ data.gigs[k].date = EvDay(allEvents[a])
          /\ BufferedGig(data.gigs[k])[1] > 510
          /\ BufferedGig(data.gigs[k])[1] < 780

(* C2: every block lies on one of the 7 days from the anchor, on a Monday to
   Friday, between 08:30 and 13:00 *)
C2_WeekdayMornings ==
    LET days == { DayAt(k) : k \in 0..6 } IN
    \A a \in 1..Len(allEvents) :
       LET e == allEvents[a] IN
       /\ EvDay(e) \in days
       /\ (DateUTC(EvDay(e)) + 4) % 7 \in 1..5
       /\ EvStart(e) >= 8 * 60 + 30
       /\ EvStart(e) < EvEnd(e)
       /\ EvEnd(e) <= 13 * 60

(* a finished run anchored on a Saturday with blocks on all five weekdays *)
C2_Witness ==
    /\ pc = "done"
    /\ data.server_date = <<2026, 2, 28>>
    /\ Cardinality({ EvDay(allEvents[a]) : a \in 1..Len(allEvents) }) = 5

(* C3: the blocks placed on a day are a prefix of Music > Nibango > YouTube *)
C3_PriorityPrefix ==
    \A k \in 0..6 :
       /\ "youtube" \in KeysOn(DayAt(k)) => "nibango" \in KeysOn(DayAt(k))
       /\ "nibango" \in KeysOn(DayAt(k)) => "music" \in KeysOn(DayAt(k))

(* the 12-hour form 'HH:MM AM/PM - HH:MM AM/PM', hour 1..12, minute 0..59 *)
TwelveHourForm(txt) ==
    LET raw == splitDash(txt, 1, <<>>)
    IN  /\ Len(raw) = 2
        /\ \A k \in 1..2 :
              LET m == matchTime(trim(raw[k]))
              IN  m.ok /\ m.h \in 1..12 /\ m.m \in 0..59

(* C5: a gig with a day and a time that is not in the 12-hour form makes the
   run fail, whatever its day: the run never completes and nothing is written *)
C5_MalformedIsFatal ==
    (\E k \in 1..Len(data.gigs) :
        /\ data.gigs[k].date # <<>>
        /\ data.gigs[k].time # <<>>
        /\ ~TwelveHourForm(data.gigs[k].time))
    => (pc # "done" /\ written = <<>>)

(* C6: the closing time is the start of the first busy interval ending after
   08:30, clamped into [0, 13:00], or 13:00 without one; a busy interval
   bridging 08:30 closes the window at or before 08:30 and the day gets no block *)
C6_MorningEnd ==
    \A k \in 0..6 :
       LET b == BusyOfDay(k) IN
       b.ok =>
          LET bm  == mergeIntervals(b.busy)
              rel == { j \in 1..Len(bm) : bm[j].endMin > 510 }
              end == chooseMorningEnd(bm, 780)
          IN  /\ rel = {} => end = 780
              /\ rel # {} =>
                    LET j0 == CHOOSE j \in rel : \A j2 \in rel : j <= j2
                    IN  end = IF bm[j0].startMin > 780 THEN 780 ELSE bm[j0].startMin
              /\ (\E j \in 1..Len(bm) : bm[j].startMin <= 510 /\ bm[j].endMin > 510)
                    => /\ end <= 510
                       /\ Processed(k) => EventsOn(DayAt(k)) = <<>>

(* a finished run with a weekday whose busy set bridges 08:30 after an earlier
   busy interval, and which got no block *)
C6_Witness ==
    /\ pc = "done"
    /\ \E k \in 0..6 :
          /\ isWeekday(weekdayIndexUTC(DayAt(k)))
          /\ BusyOfDay(k).ok
          /\ EventsOn(DayAt(k)) = <<>>
          /\ LET bm == mergeIntervals(BusyOfDay(k).busy)
             IN  /\ Len(bm) = 2
                 /\ bm[1].endMin <= 510
                 /\ bm[2].startMin <= 510 /\ bm[2].endMin > 510

(* C10: the blocks of a day, in priority order, are in increasing time order
   and each starts at least 15 minutes after the previous one ends *)
C10_OrderedWithBreaks ==
    \A a, b \in 1..Len(allEvents) :
       (a < b /\ EvDay(allEvents[a]) = EvDay(allEvents[b]))
          => /\ Priority(EvKey(allEvents[a])) < Priority(EvKey(allEvents[b]))
             /\ EvStart(allEvents[b]) >= EvEnd(allEvents[a]) + 15

(* a finished run with a day of three blocks and a day of two *)
C10_Witness ==
    /\ pc = "done"
    /\ \E k \in 0..6 : Len(EventsOn(DayAt(k))) = 3
    /\ \E k \in 0..6 : Len(EventsOn(DayAt(k))) = 2

-----------------------------------------------------------------------------
(* Properties of republishing *)

(* C4 as stated: the files written by two runs over the same document are equal *)
C4_ByteIdentical ==
    \A a, b \in 1..Len(written) : written[a] = written[b]

(* C4 as amended: the files of two runs have the same lines except for the
   DTSTAMP lines, which carry the second in which the run built the file *)
C4_IdenticalButDtstamp ==
    /\ \A a, b \in 1..Len(written) :
          /\ Len(written[a]) = Len(written[b])
          /\ \A k \in 1..Len(written[a]) :
                IF written[a][k][1] = "DTSTAMP"
                THEN written[b][k][1] = "DTSTAMP"
                ELSE written[a][k] = written[b][k]
    /\ written # <<>> =>
          \A k \in 1..Len(written[Len(written)]) :
             written[Len(written)][k][1] = "DTSTAMP"
                => written[Len(written)][k] = <<"DTSTAMP", now \div 1000>>

(* two runs in different seconds, with events: the files differ *)
C4_Witness ==
    /\ Len(written) = 2
    /\ allEvents # <<>>
    /\ written[1] # written[2]

-----------------------------------------------------------------------------
(* Properties of the interval primitives *)

(* the minutes [t, t + 1) covered by a list of intervals *)
Covered(s, top) == { t \in 0..(top - 1) : \E k \in 1..Len(s) : s[k].startMin <= t /\ t < s[k].endMin }

(* C7: the result of mergeIntervals is sorted, its intervals are non-empty,
   each starts strictly after the previous one ends, and it covers exactly
   the minutes covered by the argument *)
C7_MergeCorrect ==
    pc = "merged" =>
       /\ \A k \in 1..Len(mOut) : mOut[k].startMin < mOut[k].endMin
       /\ \A k \in 1..(Len(mOut) - 1) : mOut[k].endMin < mOut[k + 1].startMin
       /\ Covered(mOut, MaxT) = Covered(mIn, MaxT)

(* unsorted, touching, overlapping and inverted intervals merged into one *)
C7_Witness ==
    /\ pc = "merged"
    /\ mIn = <<Iv(2, 3), Iv(3, 1), Iv(0, 2)>>
    /\ mOut = <<Iv(0, 3)>>

(* C8: the result of subtractIntervals is in increasing order, disjoint,
   without empty intervals, and covers exactly the available minutes that
   are not busy *)
C8_SubtractCorrect ==
    pc = "subtracted" =>
       /\ \A k \in 1..Len(sOut) : sOut[k].startMin < sOut[k].endMin
       /\ \A k \in 1..(Len(sOut) - 1) : sOut[k].endMin <= sOut[k + 1].startMin
       /\ Covered(sOut, MaxPt) = Covered(sAvail, MaxPt) \ Covered(sBusy, MaxPt)

(* a busy interval inside an available one, another starting with one *)
C8_Witness ==
    /\ pc = "subtracted"
    /\ Len(sAvail) = 2
    /\ \E k \in 1..Len(sBusy) :
          sAvail[1].startMin < sBusy[k].startMin /\ sBusy[k].endMin < sAvail[1].endMin
    /\ \E k \in 1..Len(sBusy) : sBusy[k].startMin = sAvail[2].startMin
    /\ Len(sOut) >= 3

-----------------------------------------------------------------------------
(* Properties of the block packer *)

FitsAt(j) == fRemaining[j].endMin - fRemaining[j].startMin >= BLOCKS[fK].minutes

(* what one template does to the packer's state *)
PackOne ==
    LET fits == { j \in 1..Len(fRemaining) : FitsAt(j) }
    IN  /\ fK' = fK + 1
        /\ IF fits = {}
           THEN fEvents' = fEvents /\ fRemaining' = fRemaining
           ELSE LET j0   == CHOOSE j \in fits : \A j2 \in fits : j <= j2
                    it   == fRemaining[j0]
                    rest == it.startMin + BLOCKS[fK].minutes + 15
                    new  == fEvents'[Len(fEvents')]
                IN  /\ Len(fEvents') = Len(fEvents) + 1
                    /\ \A k \in 1..Len(fEvents) : fEvents'[k] = fEvents[k]
                    /\ EvKey(new) = BLOCKS[fK].key
                    /\ EvStart(new) = it.startMin
                    /\ EvEnd(new) = it.startMin + BLOCKS[fK].minutes
                    /\ IF rest < it.endMin
                       THEN /\ Len(fRemaining') = Len(fRemaining)
                            /\ fRemaining'[j0] = Iv(rest, it.endMin)
                            /\ \A j \in 1..Len(fRemaining) : j # j0 => fRemaining'[j] = fRemaining[j]
                       ELSE /\ Len(fRemaining') = Len(fRemaining) - 1
                            /\ \A j \in 1..(j0 - 1) : fRemaining'[j] = fRemaining[j]
                            /\ \A j \in j0..(Len(fRemaining) - 1) : fRemaining'[j] = fRemaining[j + 1]

(* the result for the free sequence [[08:30, 13:00)] *)
ScenarioA ==
    (pc = "scheduled" /\ fFree = <<Iv(510, 780)>>) =>
       /\ Len(fEvents) = 3
       /\ <<EvKey(fEvents[1]), EvStart(fEvents[1]), EvEnd(fEvents[1])>> = <<"music", 510, 540>>
       /\ <<EvKey(fEvents[2]), EvStart(fEvents[2]), EvEnd(fEvents[2])>> = <<"nibango", 555, 645>>
       /\ <<EvKey(fEvents[3]), EvStart(fEvents[3]), EvEnd(fEvents[3])>> = <<"youtube", 660, 720>>

(* C9: each template, in priority order, goes to the start of the first
   remaining interval long enough, which is cut to what is left after the
   block and the break or removed; a template that fits nowhere changes
   nothing and the next one is tried; [[08:30, 13:00)] gives Music
   08:30-09:00, Nibango 09:15-10:45, YouTube 11:00-12:00 *)
C9_Packing ==
    /\ [][(pc = "schedule" /\ fK <= 3) => PackOne]_vars
    /\ []ScenarioA

(* two free intervals: Music uses up the first, Nibango fits nowhere,
   YouTube uses up the second *)
C9_Witness ==
    /\ pc = "scheduled"
    /\ Len(fFree) = 2
    /\ Len(fEvents) = 2
    /\ EvKey(fEvents[1]) = "music"
    /\ EvKey(fEvents[2]) = "youtube"
    /\ fRemaining = <<>>

====
